---- MODULE Spec2Model ----
(***************************************************************************)
(* A model of wav-decoder-ts: decodeSync walking the RIFF chunks of a byte *)
(* buffer with a sequential reader, decodeFormat, decodeData and readPCM.  *)
(* One decodeSync call is a state machine; every reader operation the call *)
(* makes is one step.  The steps are operators on a record of the call's   *)
(* state, so that a whole call is also a function of the buffer (Run).     *)
(***************************************************************************)
EXTENDS Integers, Sequences, FiniteSets, TLC

(***************************************************************************)
(* Bounds of the model.                                                    *)
(***************************************************************************)
MaxChannels == 2      \* numberOfChannels of the generated fmt chunks: 0..MaxChannels
MaxFrames == 2        \* frames of the well-formed 16-bit buffers: 0..MaxFrames
MaxJunk == 3          \* declared size of an unknown chunk: 0..MaxJunk
MaxBlock == 4         \* blockSize of the generated fmt chunks: 0..MaxBlock
MaxExcess == 1        \* how far a data chunk's declared size exceeds its body
IterCap == 12         \* stands for 2^53, where i++ on a double stops growing
DecodeFuel == 80      \* steps Run may take; every finite call needs fewer

(***************************************************************************)
(* Bytes, tags and little-endian encoding of the generated buffers.        *)
(***************************************************************************)
RIFF == <<82, 73, 70, 70>>
WAVE == <<87, 65, 86, 69>>
FMT  == <<102, 109, 116, 32>>
DATA == <<100, 97, 116, 97>>
JUNK == <<74, 85, 78, 75>>
RIFX == <<82, 73, 70, 88>>

U16(n) == <<n % 256, (n \div 256) % 256>>
U32(n) == <<n % 256, (n \div 256) % 256, (n \div 65536) % 256, (n \div 16777216) % 256>>

Min(a, b) == IF a < b THEN a ELSE b

RECURSIVE Pow2(_)
Pow2(k) == IF k = 0 THEN 1 ELSE 2 * Pow2(k - 1)

(***************************************************************************)
(* DataView reads.  pos is 0-based; a read of w bytes at p is in range     *)
(* when p + w <= byteLength, and throws a RangeError otherwise.            *)
(***************************************************************************)
byteLength(buf) == Len(buf)
InRange(buf, p, w) == p >= 0 /\ p + w <= byteLength(buf)

getUint8(buf, p) == buf[p + 1]
getUint16(buf, p) == buf[p + 1] + 256 * buf[p + 2]
getInt16(buf, p) ==
    LET u == getUint16(buf, p) IN IF u >= 32768 THEN u - 65536 ELSE u
\* The generated buffers keep every 32-bit size below 2^31.
getUint32(buf, p) ==
    buf[p + 1] + 256 * buf[p + 2] + 65536 * buf[p + 3] + 16777216 * buf[p + 4]
getInt32(buf, p) ==
    buf[p + 1] + 256 * buf[p + 2] + 65536 * buf[p + 3]
      + 16777216 * (IF buf[p + 4] >= 128 THEN buf[p + 4] - 256 ELSE buf[p + 4])

(***************************************************************************)
(* Sample values.  An integer PCM reader returns the quotient              *)
(* num / (2^denPow - denSub); a float reader returns the IEEE value of its *)
(* bytes, kept as those bytes.  f32 marks a value stored in a Float32Array *)
(* (rounded to single precision).                                          *)
(***************************************************************************)
Quot(n, k, c) == [kind |-> "int", num |-> n, denPow |-> k, denSub |-> c,
                  bits |-> <<>>, f32 |-> FALSE]
Ieee(kind, bs) == [kind |-> kind, num |-> 0, denPow |-> 0, denSub |-> 0,
                   bits |-> bs, f32 |-> FALSE]
ToFloat32(v) == [v EXCEPT !.f32 = TRUE]
Float32Zero == ToFloat32(Quot(0, 0, 0))

Bytes(buf, p, w) == [j \in 1..w |-> buf[p + j]]

pcm8(buf, p) ==
    LET data == getUint8(buf, p) - 128
    IN  IF data < 0 THEN Quot(data, 7, 0) ELSE Quot(data, 7, 1)
\* (u - 127.5) / 127.5 = (2u - 255) / 255
pcm8s(buf, p) == Quot(2 * getUint8(buf, p) - 255, 8, 1)
pcm16(buf, p) ==
    LET data == getInt16(buf, p)
    IN  IF data < 0 THEN Quot(data, 15, 0) ELSE Quot(data, 15, 1)
pcm16s(buf, p) == Quot(getInt16(buf, p), 15, 0)
\* xx > 0x800000 ? xx - 0x1000000 : xx
data24(buf, p) ==
    LET x0 == getUint8(buf, p + 0)
        x1 == getUint8(buf, p + 1)
        x2 == getUint8(buf, p + 2)
        xx == x0 + x1 * 256 + x2 * 65536
    IN  IF xx > 8388608 THEN xx - 16777216 ELSE xx
pcm24(buf, p) ==
    LET data == data24(buf, p)
    IN  IF data < 0 THEN Quot(data, 23, 0) ELSE Quot(data, 23, 1)
pcm24s(buf, p) == Quot(data24(buf, p), 23, 0)
pcm32(buf, p) ==
    LET data == getInt32(buf, p)
    IN  IF data < 0 THEN Quot(data, 31, 0) ELSE Quot(data, 31, 1)
pcm32s(buf, p) == Quot(getInt32(buf, p), 31, 0)
pcm32f(buf, p) == Ieee("f32", Bytes(buf, p, 4))
pcm64f(buf, p) == Ieee("f64", Bytes(buf, p, 8))

\* The names of the reader's PCM methods.
PcmMethods == {"pcm8", "pcm8s", "pcm16", "pcm16s", "pcm24", "pcm24s",
               "pcm32", "pcm32s", "pcm32f", "pcm64f"}

\* pos += w of each PCM method.
PcmWidth(m) ==
    CASE m \in {"pcm8", "pcm8s"} -> 1
      [] m \in {"pcm16", "pcm16s"} -> 2
      [] m \in {"pcm24", "pcm24s"} -> 3
      [] m \in {"pcm32", "pcm32s", "pcm32f"} -> 4
      [] m = "pcm64f" -> 8

PcmRead(m, buf, p) ==
    CASE m = "pcm8" -> pcm8(buf, p)
      [] m = "pcm8s" -> pcm8s(buf, p)
      [] m = "pcm16" -> pcm16(buf, p)
      [] m = "pcm16s" -> pcm16s(buf, p)
      [] m = "pcm24" -> pcm24(buf, p)
      [] m = "pcm24s" -> pcm24s(buf, p)
      [] m = "pcm32" -> pcm32(buf, p)
      [] m = "pcm32s" -> pcm32s(buf, p)
      [] m = "pcm32f" -> pcm32f(buf, p)
      [] m = "pcm64f" -> pcm64f(buf, p)

\* 'pcm' + bitDepth + decoderOption
BitDepthText(bd) ==
    CASE bd = 8 -> "8" [] bd = 12 -> "12" [] bd = 16 -> "16" [] bd = 24 -> "24"
      [] bd = 32 -> "32" [] bd = 64 -> "64" [] OTHER -> "?"
methodName(bitDepth, floatingPoint, sym) ==
    LET decoderOption == IF floatingPoint THEN "f" ELSE IF sym THEN "s" ELSE ""
    IN  "pcm" \o BitDepthText(bitDepth) \o decoderOption

(***************************************************************************)
(* The state of one decodeSync call.                                       *)
(*   buffer, symmetric : the arguments (opts.symmetric)                    *)
(*   pc                : the statement the call is at                      *)
(*   pos               : the reader's offset                               *)
(*   chunkType, chunkSize, format, audioData : decodeSync's locals         *)
(*   formatId, pending : decodeFormat's local and the object it builds     *)
(*   length, channelData, method, i, ch : decodeData's and readPCM's locals*)
(*   error             : the error thrown, "" while there is none          *)
(*   bodyStart         : pos when the current chunk's header had been read *)
(*   touched           : the offsets the DataView has returned bytes of    *)
(*   last              : the last reader operation: its name, the offset   *)
(*                       it started at, its width, whether it was in range *)
(*   plain             : the buffer without its unknown chunk (an input    *)
(*                       the call never reads; kept to compare results)    *)
(***************************************************************************)
VARIABLES buffer, symmetric, pc, pos, chunkType, chunkSize, format, audioData,
          formatId, pending, length, channelData, method, i, ch, error,
          bodyStart, touched, last, plain

vars == <<buffer, symmetric, pc, pos, chunkType, chunkSize, format, audioData,
          formatId, pending, length, channelData, method, i, ch, error,
          bodyStart, touched, last, plain>>

null == [isNull |-> TRUE]

State == [buffer |-> buffer, symmetric |-> symmetric, pc |-> pc, pos |-> pos,
          chunkType |-> chunkType, chunkSize |-> chunkSize, format |-> format,
          audioData |-> audioData, formatId |-> formatId, pending |-> pending,
          length |-> length,
          channelData |-> channelData, method |-> method, i |-> i, ch |-> ch,
          error |-> error, bodyStart |-> bodyStart, touched |-> touched,
          last |-> last]

Becomes(s) ==
    /\ buffer' = s.buffer /\ symmetric' = s.symmetric /\ pc' = s.pc
    /\ pos' = s.pos /\ chunkType' = s.chunkType /\ chunkSize' = s.chunkSize
    /\ format' = s.format /\ audioData' = s.audioData
    /\ formatId' = s.formatId /\ pending' = s.pending /\ length' = s.length
    /\ channelData' = s.channelData /\ method' = s.method /\ i' = s.i
    /\ ch' = s.ch /\ error' = s.error /\ bodyStart' = s.bodyStart
    /\ touched' = s.touched /\ last' = s.last

Finite(n) == [kind |-> "finite", n |-> n]
Infinity == [kind |-> "Infinity", n |-> 0]
NaN == [kind |-> "NaN", n |-> 0]

NoOp == [op |-> "none", from |-> 0, width |-> 0, ok |-> TRUE, val |-> Float32Zero]

\* The state createReader and decodeSync's first lines leave.
Start(buf, sym) ==
    [buffer |-> buf, symmetric |-> sym, pc |-> "riff", pos |-> 0,
     chunkType |-> <<>>, chunkSize |-> 0, format |-> null, audioData |-> null,
     formatId |-> 0, pending |-> null, length |-> Finite(0), channelData |-> <<>>, method |-> "",
     i |-> 0, ch |-> 0, error |-> "", bodyStart |-> 0, touched |-> {},
     last |-> NoOp]

Terminal == {"returned", "failed"}

\* throw: the call ends with the error.
Throw(s, e) == [s EXCEPT !.pc = "failed", !.error = e]

(***************************************************************************)
(* The reader (createReader).  Each operator is one call of the method on  *)
(* the call state s; next is the statement the caller goes on with.        *)
(***************************************************************************)
remain(s) == byteLength(s.buffer) - s.pos

\* pos += n
skipPadded(p, n) == p + n + (n % 2)
skip(p, n) == p + n

readerSkip(s, n, next) ==
    [s EXCEPT !.pos = skip(s.pos, n), !.pc = next,
              !.last = [op |-> "skip", from |-> s.pos, width |-> n, ok |-> TRUE,
                        val |-> Float32Zero]]

\* uint8, uint16, uint32: read at pos, then pos += w.  A read out of range
\* throws and leaves pos.
readerUint(s, w, next) ==
    IF InRange(s.buffer, s.pos, w)
    THEN [s EXCEPT !.pos = s.pos + w, !.pc = next,
                   !.touched = @ \cup (s.pos .. s.pos + w - 1),
                   !.last = [op |-> "uint", from |-> s.pos, width |-> w,
                             ok |-> TRUE, val |-> Float32Zero]]
    ELSE [Throw(s, "RangeError") EXCEPT
                   !.last = [op |-> "uint", from |-> s.pos, width |-> w,
                             ok |-> FALSE, val |-> Float32Zero]]

\* string(n): n calls of uint8; the first one out of range throws, with pos
\* behind the bytes read so far.
readerString(s, n, next) ==
    LET got == IF s.pos > byteLength(s.buffer) THEN 0
               ELSE Min(n, byteLength(s.buffer) - s.pos)
        t == [s EXCEPT !.pos = s.pos + got,
                       !.touched = @ \cup (s.pos .. s.pos + got - 1),
                       !.last = [op |-> "string", from |-> s.pos, width |-> n,
                                 ok |-> got = n, val |-> Float32Zero]]
    IN  IF got = n THEN [t EXCEPT !.pc = next] ELSE Throw(t, "RangeError")

\* The characters string(n) has just returned.
stringRead(s, n) == Bytes(s.buffer, s.pos - n, n)

\* One PCM method: read at pos, pos += width, return the sample.
readerPcm(s, m) ==
    LET w == PcmWidth(m) IN
    IF InRange(s.buffer, s.pos, w)
    THEN [s EXCEPT !.pos = s.pos + w,
                   !.touched = @ \cup (s.pos .. s.pos + w - 1),
                   !.last = [op |-> m, from |-> s.pos, width |-> w, ok |-> TRUE,
                             val |-> PcmRead(m, s.buffer, s.pos)]]
    ELSE [Throw(s, "RangeError") EXCEPT
                   !.last = [op |-> m, from |-> s.pos, width |-> w, ok |-> FALSE,
                             val |-> Float32Zero]]

(***************************************************************************)
(* decodeSync, decodeFormat, decodeData and readPCM, statement by          *)
(* statement.                                                              *)
(***************************************************************************)
\* const formats = { 0x0001: 'lpcm', 0x0003: 'lpcm' }: the keys.
formatsWithAdpcm == {1, 2, 3}
formats == {1, 3}

\* if (reader.string(4) !== 'RIFF') throw new TypeError('Invalid WAV file')
RiffTagStep(s) ==
    LET t == readerString(s, 4, "fileLength")
    IN  IF t.pc = "failed" THEN t
        ELSE IF stringRead(t, 4) # RIFF THEN Throw(t, "Invalid WAV file") ELSE t

\* reader.uint32(); // skip file length
FileLengthStep(s) == readerUint(s, 4, "wave")

\* if (reader.string(4) !== 'WAVE') throw new TypeError('Invalid WAV file')
WaveTagStep(s) ==
    LET t == readerString(s, 4, "chunkType")
    IN  IF t.pc = "failed" THEN t
        ELSE IF stringRead(t, 4) # WAVE THEN Throw(t, "Invalid WAV file") ELSE t

\* const chunkType = reader.string(4)
ChunkTypeStep(s) ==
    LET t == readerString(s, 4, "chunkSize")
    IN  IF t.pc = "failed" THEN t ELSE [t EXCEPT !.chunkType = stringRead(t, 4)]

\* const chunkSize = reader.uint32(); switch (chunkType)
ChunkSizeStep(s) ==
    LET t == readerUint(s, 4, "switch")
    IN  IF t.pc = "failed" THEN t
        ELSE [t EXCEPT !.chunkSize = getUint32(s.buffer, s.pos),
                       !.bodyStart = t.pos,
                       !.pc = CASE s.chunkType = FMT -> "fmtFormatId"
                                [] s.chunkType = DATA -> "decodeData"
                                [] OTHER -> "skipChunk"]

\* default: reader.skip(chunkSize); then while (audioData === null)
SkipChunkStep(s) == readerSkip(s, s.chunkSize, "chunkType")

\* decodeFormat: const formatId = reader.uint16(); the error it returns for
\* an id that is no key of formats is thrown by decodeSync.
FormatIdStep(s) ==
    LET t == readerUint(s, 2, "fmtNumberOfChannels")
        id == getUint16(s.buffer, s.pos)
    IN  IF t.pc = "failed" THEN t
        ELSE IF id \notin formats
             THEN Throw([t EXCEPT !.formatId = id], "Unsupported format in WAV file")
             ELSE [t EXCEPT !.formatId = id,
                            !.pending = [formatId |-> id, floatingPoint |-> id = 3]]

\* One field of the format object: a reader.uint16() or reader.uint32().
FormatFieldStep(s, w, next) ==
    LET t == readerUint(s, w, next)
        v == IF w = 2 THEN getUint16(s.buffer, s.pos) ELSE getUint32(s.buffer, s.pos)
    IN  IF t.pc = "failed" THEN t
        ELSE [t EXCEPT !.pending =
                CASE s.pc = "fmtNumberOfChannels" -> [numberOfChannels |-> v] @@ @
                  [] s.pc = "fmtSampleRate" -> [sampleRate |-> v] @@ @
                  [] s.pc = "fmtByteRate" -> [byteRate |-> v] @@ @
                  [] s.pc = "fmtBlockSize" -> [blockSize |-> v] @@ @
                  [] s.pc = "fmtBitDepth" -> [bitDepth |-> v] @@ @]

\* reader.skip(chunkSize - 16); return format; decodeSync assigns it.
FormatSkipStep(s) ==
    [readerSkip(s, s.chunkSize - 16, "chunkType") EXCEPT !.format = s.pending]

\* chunkSize = Math.min(chunkSize, reader.remain())
noClamp(size, rem) == size
clampChunkSize(size, rem) == Min(size, rem)

\* Math.floor(chunkSize / format.blockSize / numberOfChannels) on doubles:
\* x / 0 is Infinity for x > 0 and NaN for x = 0.
frameLength(size, blockSize, numberOfChannels) ==
    IF blockSize = 0 \/ numberOfChannels = 0
    THEN (IF size = 0 THEN NaN ELSE Infinity)
    ELSE Finite(size \div (blockSize * numberOfChannels))

\* new Float32Array(length): NaN makes an empty array.
arrayLength(len) == IF len.kind = "finite" THEN len.n ELSE 0

\* decodeData with a format: the clamp, the frame count, the arrays.  new
\* Float32Array(Infinity) throws a RangeError.
decodeDataWith(s, fmt) ==
    LET cs == clampChunkSize(s.chunkSize, remain(s))
        numberOfChannels == fmt.numberOfChannels
        len == frameLength(cs, fmt.blockSize, numberOfChannels)
    IN  IF numberOfChannels >= 1 /\ len.kind = "Infinity"
        THEN Throw(s, "RangeError")
        ELSE [s EXCEPT !.length = len,
                       !.channelData = [c \in 1..numberOfChannels |->
                                          [j \in 1..arrayLength(len) |-> Float32Zero]],
                       !.pc = "readPCM"]

DefaultFormat == [formatId |-> 1, floatingPoint |-> FALSE, numberOfChannels |-> 1,
                  sampleRate |-> 44100, byteRate |-> 88200, blockSize |-> 2,
                  bitDepth |-> 16]

decodeDataDefaultFormat(s) ==
    decodeDataWith(s, IF s.format = null THEN DefaultFormat ELSE s.format)

\* decodeData: format.numberOfChannels of a null format throws a TypeError.
decodeData(s) ==
    IF s.format = null THEN Throw(s, "TypeError") ELSE decodeDataWith(s, s.format)

\* readPCM: if (!reader[methodName]) return new TypeError('Not supported bit
\* depth: ...'), which decodeData returns and decodeSync throws.
ReadPCMStep(s) ==
    LET m == methodName(s.format.bitDepth, s.format.floatingPoint, s.symmetric)
    IN  IF m \notin PcmMethods THEN Throw(s, "Not supported bit depth")
        ELSE [s EXCEPT !.method = m, !.i = 0, !.pc = "forFrame"]

\* i < length
Less(n, len) ==
    CASE len.kind = "finite" -> n < len.n
      [] len.kind = "Infinity" -> TRUE
      [] len.kind = "NaN" -> FALSE

\* i++ ; a double stops growing at 2^53, the model at IterCap.
Incr(n) == IF n < IterCap THEN n + 1 ELSE n

\* channelData[ch][i] = read()
storeSampleChannel0(cd, c, n, v) == [cd EXCEPT ![1][n + 1] = ToFloat32(v)]
storeSample(cd, c, n, v) == [cd EXCEPT ![c + 1][n + 1] = ToFloat32(v)]

\* for (let i = 0; i < length; i++): the test; when it fails readPCM returns
\* null, decodeData returns its result and decodeSync returns it.
ForFrameStep(s) ==
    IF Less(s.i, s.length)
    THEN [s EXCEPT !.ch = 0, !.pc = "forChannel"]
    ELSE [s EXCEPT !.pc = "returned",
                   !.audioData = [numberOfChannels |-> s.format.numberOfChannels,
                                  length |-> s.length,
                                  sampleRate |-> s.format.sampleRate,
                                  channelData |-> s.channelData]]

\* for (let ch = 0; ch < numberOfChannels; ch++) channelData[ch][i] = read()
ForChannelStep(s) ==
    IF s.ch < s.format.numberOfChannels
    THEN LET t == readerPcm(s, s.method)
         IN  IF t.pc = "failed" THEN t
             ELSE [t EXCEPT !.channelData = storeSample(s.channelData, s.ch, s.i, t.last.val),
                            !.ch = s.ch + 1]
    ELSE [s EXCEPT !.i = Incr(s.i), !.pc = "forFrame"]

\* The statement at s.pc.
StepOf(s) ==
    CASE s.pc = "riff" -> RiffTagStep(s)
      [] s.pc = "fileLength" -> FileLengthStep(s)
      [] s.pc = "wave" -> WaveTagStep(s)
      [] s.pc = "chunkType" -> ChunkTypeStep(s)
      [] s.pc = "chunkSize" -> ChunkSizeStep(s)
      [] s.pc = "skipChunk" -> SkipChunkStep(s)
      [] s.pc = "fmtFormatId" -> FormatIdStep(s)
      [] s.pc = "fmtNumberOfChannels" -> FormatFieldStep(s, 2, "fmtSampleRate")
      [] s.pc = "fmtSampleRate" -> FormatFieldStep(s, 4, "fmtByteRate")
      [] s.pc = "fmtByteRate" -> FormatFieldStep(s, 4, "fmtBlockSize")
      [] s.pc = "fmtBlockSize" -> FormatFieldStep(s, 2, "fmtBitDepth")
      [] s.pc = "fmtBitDepth" -> FormatFieldStep(s, 2, "fmtSkip")
      [] s.pc = "fmtSkip" -> FormatSkipStep(s)
      [] s.pc = "decodeData" -> decodeData(s)
      [] s.pc = "readPCM" -> ReadPCMStep(s)
      [] s.pc = "forFrame" -> ForFrameStep(s)
      [] s.pc = "forChannel" -> ForChannelStep(s)

\* A whole call: the statements from s on, until it returns or throws.
RECURSIVE Run(_, _)
Run(s, fuel) ==
    IF s.pc \in Terminal \/ fuel = 0 THEN s ELSE Run(StepOf(s), fuel - 1)

decodeSync(buf, sym) == Run(Start(buf, sym), DecodeFuel)

(***************************************************************************)
(* The buffers the calls are given.                                        *)
(***************************************************************************)
\* Sample bytes: a ramp of distinct bytes, and the 24-bit extremes
\* 00 00 80 (0x800000) and FF FF 7F (0x7FFFFF).
PatByte(p, j) ==
    IF p = "ramp" THEN (37 * j + 1) % 128
    ELSE <<0, 0, 128, 255, 255, 127>>[(j % 6) + 1]
Body(p, n) == [j \in 1..n |-> PatByte(p, j - 1)]
Patterns == {"ramp", "extremes"}

Header(riff, wave) == riff \o U32(0) \o wave
FmtChunk(declared, id, channels, rate, block, depth, ext) ==
    FMT \o U32(declared) \o U16(id) \o U16(channels) \o U32(rate)
        \o U32(rate * block) \o U16(block) \o U16(depth) \o ext
DataChunk(declared, body) == DATA \o U32(declared) \o body
JunkChunk(n) == JUNK \o U32(n) \o Body("ramp", n)

\* An input: the buffer, and the buffer without its unknown chunk.
Input(buf, pl) == [buffer |-> buf, plain |-> pl]
Same(buf) == Input(buf, buf)

\* Well-formed 16-bit files of N channels and L frames (blockSize = 2N, a
\* data chunk of 2NL bytes), with or without an extended fmt chunk and an
\* unknown chunk between fmt and data.
WellFormed16 ==
    { LET head == Header(RIFF, WAVE)
                    \o FmtChunk(16 + Len(ext), 1, N, 8000, 2 * N, 16, ext)
          tail == DataChunk(2 * N * L, Body(p, 2 * N * L))
      IN  IF n < 0 THEN Same(head \o tail)
          ELSE Input(head \o JunkChunk(n) \o tail, head \o tail)
      : N \in 1..MaxChannels, L \in 0..MaxFrames, ext \in {<<>>, <<0, 0>>},
        n \in -1..MaxJunk, p \in Patterns }

\* Every format id, channel count, block size and bit depth, over data
\* chunks that declare their size or more.
Varied ==
    { Same(Header(RIFF, WAVE) \o FmtChunk(16, id, N, 8000, block, depth, <<>>)
             \o DataChunk(n + x, Body(p, n)))
      : id \in {1, 2, 3}, N \in 0..MaxChannels, block \in (0..MaxBlock) \cup {8},
        depth \in {8, 12, 16, 24, 32, 64}, n \in {0, 6, 8}, x \in 0..MaxExcess,
        p \in Patterns }

Good == Header(RIFF, WAVE) \o FmtChunk(16, 1, 1, 8000, 2, 16, <<>>) \o JunkChunk(1)
          \o DataChunk(2, Body("ramp", 2))
Mono(declared, rate) == FmtChunk(declared, 1, 1, rate, 2, 16, <<>>)

\* Buffers that are no well-formed file: cut short, wrong tags, a fmt chunk
\* whose declared size is not its 16 bytes, data before fmt, no data, two
\* fmt chunks, a data chunk declaring less than follows it.
Malformed ==
    { Same(SubSeq(Good, 1, k)) : k \in 0..(Len(Good) - 1) }
    \cup { Same(Header(RIFX, WAVE) \o Mono(16, 8000) \o DataChunk(2, Body("ramp", 2))),
           Same(Header(RIFF, RIFX) \o Mono(16, 8000) \o DataChunk(2, Body("ramp", 2))),
           Same(Header(RIFF, WAVE) \o DataChunk(4, Body("ramp", 4)) \o Mono(16, 8000)),
           Same(Header(RIFF, WAVE) \o DataChunk(0, <<>>)),
           Same(Header(RIFF, WAVE) \o Mono(16, 8000)),
           Same(Header(RIFF, WAVE) \o Mono(16, 8000) \o JunkChunk(2)),
           Same(Header(RIFF, WAVE) \o JunkChunk(0) \o Mono(16, 8000)
                  \o DataChunk(4, Body("ramp", 4))),
           Same(Header(RIFF, WAVE) \o Mono(16, 8000)
                  \o FmtChunk(16, 1, 2, 8000, 4, 16, <<>>)
                  \o DataChunk(8, Body("ramp", 8))),
           Same(Header(RIFF, WAVE) \o Mono(16, 8000)
                  \o FmtChunk(16, 2, 1, 8000, 2, 16, <<>>)
                  \o DataChunk(4, Body("ramp", 4))),
           Same(Header(RIFF, WAVE) \o Mono(16, 8000) \o DataChunk(2, Body("ramp", 6))) }
    \cup { Same(Header(RIFF, WAVE) \o Mono(declared, rate)
                  \o DataChunk(4, Body("ramp", 4)))
           : declared \in {0, 8, 14, 15, 20}, rate \in {8, 8000} }

Inputs == WellFormed16 \cup Varied \cup Malformed

\* The inputs of the termination property: the malformed buffers (no data
\* chunk, zero-sized chunks) and 16-bit files of every channel count and
\* block size, 0 included, with an empty and a non-empty data chunk.
LoopInputs ==
    Malformed \cup
    { Same(Header(RIFF, WAVE) \o FmtChunk(16, 1, N, 8000, block, 16, <<>>)
             \o DataChunk(n, Body("ramp", n)))
      : N \in 0..MaxChannels, block \in 0..MaxBlock, n \in {0, 6} }

(***************************************************************************)
(* The state machine: one decodeSync call on any input, with either value  *)
(* of opts.symmetric.                                                      *)
(***************************************************************************)
InitOn(inputs) ==
    \E in \in inputs, sym \in BOOLEAN :
        /\ plain = in.plain
        /\ LET s == Start(in.buffer, sym) IN
           /\ buffer = s.buffer /\ symmetric = s.symmetric /\ pc = s.pc
           /\ pos = s.pos /\ chunkType = s.chunkType /\ chunkSize = s.chunkSize
           /\ format = s.format /\ audioData = s.audioData
           /\ formatId = s.formatId /\ pending = s.pending /\ length = s.length
           /\ channelData = s.channelData /\ method = s.method /\ i = s.i
           /\ ch = s.ch /\ error = s.error /\ bodyStart = s.bodyStart
           /\ touched = s.touched /\ last = s.last

Init == InitOn(Inputs)

At(label, next) == pc = label /\ Becomes(next) /\ UNCHANGED plain

RiffTag == At("riff", RiffTagStep(State))
FileLength == At("fileLength", FileLengthStep(State))
WaveTag == At("wave", WaveTagStep(State))
ChunkType == At("chunkType", ChunkTypeStep(State))
ChunkSize == At("chunkSize", ChunkSizeStep(State))
SkipChunk == At("skipChunk", SkipChunkStep(State))
FormatId == At("fmtFormatId", FormatIdStep(State))
FormatNumberOfChannels ==
    At("fmtNumberOfChannels", FormatFieldStep(State, 2, "fmtSampleRate"))
FormatSampleRate == At("fmtSampleRate", FormatFieldStep(State, 4, "fmtByteRate"))
FormatByteRate == At("fmtByteRate", FormatFieldStep(State, 4, "fmtBlockSize"))
FormatBlockSize == At("fmtBlockSize", FormatFieldStep(State, 2, "fmtBitDepth"))
FormatBitDepth == At("fmtBitDepth", FormatFieldStep(State, 2, "fmtSkip"))
FormatSkip == At("fmtSkip", FormatSkipStep(State))
DecodeData == At("decodeData", decodeData(State))
ReadPCM == At("readPCM", ReadPCMStep(State))
ForFrame == At("forFrame", ForFrameStep(State))
ForChannel == At("forChannel", ForChannelStep(State))

Next ==
    \/ RiffTag \/ FileLength \/ WaveTag
    \/ ChunkType \/ ChunkSize \/ SkipChunk
    \/ FormatId \/ FormatNumberOfChannels \/ FormatSampleRate \/ FormatByteRate
    \/ FormatBlockSize \/ FormatBitDepth \/ FormatSkip
    \/ DecodeData \/ ReadPCM \/ ForFrame \/ ForChannel

Spec == Init /\ [][Next]_vars

\* decodeSync is synchronous: a call that can take a step takes it.
FairSpec == InitOn(LoopInputs) /\ [][Next]_vars /\ WF_vars(Next)

(***************************************************************************)
(* Predicates the properties below are stated with.                        *)
(***************************************************************************)
\* The call is through: it returned or threw.
Done == pc \in Terminal

\* The header of a data chunk has been read and decodeData entered.
DataReached ==
    /\ chunkType = DATA
    /\ \/ pc \in {"decodeData", "readPCM", "forFrame", "forChannel", "returned"}
       \/ pc = "failed" /\ last.op = "uint" /\ last.width = 4 /\ last.ok
       \/ pc = "failed" /\ last.op \in PcmMethods

\* decodeData has computed the frame count and the call has not thrown.
InData == chunkType = DATA /\ pc \in {"readPCM", "forFrame", "forChannel", "returned"}

\* The data chunk declares more bytes than the buffer holds after its header.
Oversized == chunkSize > Len(buffer) - bodyStart

\* The sample q is the number -1, or a number in (0, 1].
IsMinusOne(q) == q.kind = "int" /\ q.num < 0 /\ -q.num = Pow2(q.denPow) - q.denSub
IsPositiveAtMostOne(q) ==
    q.kind = "int" /\ q.num > 0 /\ q.num <= Pow2(q.denPow) - q.denSub

\* The (bitDepth, floatingPoint) pair of the format has an entry in the
\* decode table.
InDecodeTable(fmt) ==
    \/ ~fmt.floatingPoint /\ fmt.bitDepth \in {8, 16, 24, 32}
    \/ fmt.floatingPoint /\ fmt.bitDepth \in {32, 64}

\* The minimal 16-bit file of N channels and L frames.
Minimal16(N, L, p) ==
    Header(RIFF, WAVE) \o FmtChunk(16, 1, N, 8000, 2 * N, 16, <<>>)
      \o DataChunk(2 * N * L, Body(p, 2 * N * L))

(***************************************************************************)
(* C1: for every well-formed buffer (16-byte fmt chunk, formatId 1,        *)
(* bitDepth 16, N >= 1 channels, blockSize 2N, a data chunk of exactly     *)
(* 2NL bytes) decodeSync returns channelData of exactly N arrays, each of  *)
(* length exactly L.  The code divides the chunk size by blockSize and by  *)
(* numberOfChannels, so this fails for N >= 2.                             *)
(***************************************************************************)
C1_FrameCount ==
    \A N \in 1..MaxChannels, L \in 0..MaxFrames, p \in Patterns :
        (buffer = Minimal16(N, L, p) /\ Done) =>
            /\ pc = "returned"
            /\ Len(audioData.channelData) = N
            /\ \A c \in 1..N : Len(audioData.channelData[c]) = L

(***************************************************************************)
(* C2: when the formatId of a fmt chunk is neither 1 nor 3 the call fails  *)
(* with the unsupported-format error, returns no AudioData, decodeFormat   *)
(* has consumed the 2 bytes of the formatId and nothing more, and no byte  *)
(* behind them (no later chunk header) is read.                            *)
(***************************************************************************)
FormatIdJustRead ==
    /\ chunkType = FMT
    /\ last.op = "uint" /\ last.width = 2 /\ last.ok /\ last.from = bodyStart

C2_UnsupportedFormat ==
    (FormatIdJustRead /\ getUint16(buffer, bodyStart) \notin {1, 3}) =>
        /\ pc = "failed"
        /\ error = "Unsupported format in WAV file"
        /\ audioData = null
        /\ pos = bodyStart + 2
        /\ \A o \in touched : o < bodyStart + 2

C2_Witness ==
    /\ pc = "failed" /\ error = "Unsupported format in WAV file"
    /\ getUint16(buffer, bodyStart) = 2
    /\ Len(buffer) >= bodyStart + 16 + 8
    /\ Bytes(buffer, bodyStart + 16, 4) = DATA

(***************************************************************************)
(* C3: for every buffer whose fmt chunk was accepted and whose data chunk  *)
(* declares more bytes than remain, the frame count is derived from the    *)
(* remaining byte count, and no sample read reaches an offset at or beyond *)
(* the buffer's length.  As stated (for every accepted format) it fails    *)
(* when blockSize is smaller than the sample's width.                      *)
(***************************************************************************)
FrameCountFromRemaining ==
    (InData /\ Oversized) =>
        LET rem == Len(buffer) - bodyStart
            block == format.blockSize
            N == format.numberOfChannels
        IN  IF block >= 1 /\ N >= 1 THEN length = Finite(rem \div (block * N))
            ELSE length.kind # "finite"

SampleReadsInBuffer ==
    last.op \in PcmMethods => last.from + last.width <= Len(buffer)

C3_Original ==
    /\ FrameCountFromRemaining
    /\ (DataReached /\ format # null /\ Oversized) => SampleReadsInBuffer

\* C3 as amended: the same, for formats whose blockSize is at least the
\* width in bytes of one sample (bitDepth / 8).
C3_ClampedData ==
    /\ FrameCountFromRemaining
    /\ (DataReached /\ format # null /\ Oversized
          /\ 8 * format.blockSize >= format.bitDepth) => SampleReadsInBuffer

C3_Witness ==
    /\ pc = "returned" /\ Oversized
    /\ 8 * format.blockSize >= format.bitDepth
    /\ length.kind = "finite" /\ length.n >= 2
    /\ last.op \in PcmMethods
    /\ pos = Len(buffer)

(***************************************************************************)
(* C4: a chunk whose tag is neither 'fmt ' nor 'data' moves the cursor by  *)
(* exactly its declared size past its 8-byte header (no padding to an even *)
(* size) and none of its bytes is read; a buffer with such a chunk between *)
(* fmt and data decodes to the AudioData of the buffer without it.         *)
(***************************************************************************)
SkipsDeclaredSize ==
    /\ (pc = "chunkSize" /\ pc' # "failed" /\ chunkType \notin {FMT, DATA})
          => pc' = "skipChunk"
    /\ pc = "skipChunk" =>
          /\ pos = bodyStart
          /\ pos' = bodyStart + getUint32(buffer, bodyStart - 4)
          /\ touched' = touched
          /\ pc' = "chunkType"

SameAsWithoutChunk ==
    (plain # buffer /\ Done) =>
        LET r == decodeSync(plain, symmetric)
        IN  /\ pc = "returned" /\ r.pc = "returned"
            /\ audioData = r.audioData

C4_SkipUnknown == []SameAsWithoutChunk /\ [][SkipsDeclaredSize]_vars

C4_Witness ==
    /\ pc = "returned"
    /\ Len(buffer) = Len(plain) + 8 + 3
    /\ audioData.length.n >= 1
    /\ format.numberOfChannels = 2

(***************************************************************************)
(* C5: at bit depth 24, with pcm24 and with pcm24s, the bytes 00 00 80     *)
(* decode to exactly -1.0 and the bytes FF FF 7F to a positive value not   *)
(* above +1.0, and each read advances the cursor by 3.  The code extends   *)
(* the sign only above 0x800000, so 00 00 80 decodes to a positive value.  *)
(***************************************************************************)
C5_Extremes24 ==
    (last.op \in {"pcm24", "pcm24s"} /\ last.ok) =>
        LET b == Bytes(buffer, last.from, 3)
        IN  /\ pos = last.from + 3
            /\ b = <<0, 0, 128>> => IsMinusOne(last.val)
            /\ b = <<255, 255, 127>> => IsPositiveAtMostOne(last.val)

(***************************************************************************)
(* C6: every decodeSync call eventually finishes: it returns AudioData or  *)
(* fails, for every buffer and either value of symmetric, also with        *)
(* numberOfChannels = 0 or blockSize = 0.  With numberOfChannels = 0 and a *)
(* non-empty data chunk the frame count is Infinity and the frame loop     *)
(* never ends.                                                             *)
(***************************************************************************)
C6_Terminates == <>Done

(***************************************************************************)
(* C7: the reader's offset never decreases during a decodeSync call, also  *)
(* for fmt chunks declaring fewer than 16 bytes.  There skip(chunkSize -   *)
(* 16) is a skip by a negative number.                                     *)
(***************************************************************************)
C7_Monotone == [][pos' >= pos]_vars

(***************************************************************************)
(* C8: samples are consumed frame by frame: with N channels and samples of *)
(* w bytes, channelData[ch][i] is the decode of the w bytes at             *)
(* dataStart + (i * N + ch) * w for every frame i and channel ch, and no   *)
(* other element is written (it keeps the 0 it was made with).             *)
(***************************************************************************)
C8_Interleaved ==
    (chunkType = DATA /\ pc \in {"forFrame", "forChannel", "returned"}) =>
        LET N == format.numberOfChannels
            w == format.bitDepth \div 8
            m == methodName(format.bitDepth, format.floatingPoint, symmetric)
            Written(f, c) == f < i \/ (f = i /\ pc = "forChannel" /\ c < ch)
        IN  /\ Len(channelData) = N
            /\ \A c \in 1..N :
                 /\ Len(channelData[c]) = arrayLength(length)
                 /\ \A j \in 1..Len(channelData[c]) :
                      channelData[c][j] =
                        IF Written(j - 1, c - 1)
                        THEN ToFloat32(PcmRead(m, buffer,
                                 bodyStart + ((j - 1) * N + (c - 1)) * w))
                        ELSE Float32Zero
            /\ pc = "returned" =>
                 /\ audioData.channelData = channelData
                 /\ \A c \in 1..N : \A j \in 1..Len(channelData[c]) :
                      Written(j - 1, c - 1)

C8_Witness ==
    /\ pc = "returned" /\ format.numberOfChannels = 2
    /\ length.kind = "finite" /\ length.n = 2 /\ method = "pcm16"

(***************************************************************************)
(* C9: when a data chunk is reached with a format whose (bitDepth,         *)
(* floatingPoint) pair is not in the decode table, the call fails with the *)
(* unsupported-bit-depth error, returns no AudioData and has read no byte  *)
(* of the chunk's body, whatever numberOfChannels, blockSize and chunkSize *)
(* are.  With blockSize = 0 the arrays are made first, and new             *)
(* Float32Array(Infinity) throws a RangeError.                             *)
(***************************************************************************)
C9_UnsupportedBitDepth ==
    (DataReached /\ format # null /\ ~InDecodeTable(format)) =>
        /\ \/ pc \in {"decodeData", "readPCM"}
           \/ pc = "failed" /\ error = "Not supported bit depth"
        /\ audioData = null
        /\ pos = bodyStart
        /\ \A o \in touched : o < bodyStart

(***************************************************************************)
(* C10: a data chunk reached before any fmt chunk was decoded (format is   *)
(* null) never yields AudioData: the call fails, no format is assumed and  *)
(* no sample byte is read.                                                 *)
(***************************************************************************)
C10_DataBeforeFormat ==
    (DataReached /\ format = null) =>
        /\ \/ pc = "decodeData"
           \/ pc = "failed" /\ error = "TypeError"
        /\ audioData = null
        /\ pos = bodyStart
        /\ \A o \in touched : o < bodyStart

C10_Witness ==
    /\ pc = "failed" /\ error = "TypeError" /\ chunkType = DATA
    /\ Len(buffer) > bodyStart

====
